---- MODULE Spec2Model ----
(***************************************************************************)
(* Model of the AI content pipeline of skillsync:                          *)
(*   server/utils/aiHelper.js        (parsers, timestamp aligner)          *)
(*   server/controllers/ai/aiController.js   (request handlers)            *)
(*   models/Video.js                 (schemas, persistence helpers)        *)
(*                                                                         *)
(* Text is modelled by what the code inspects of it.  A provider response  *)
(* for the quiz parser is the list of blocks that                          *)
(* response.split(/QUESTION \d+:/).slice(1) yields; a block is the list of *)
(* its trimmed, non-empty lines; a line is classified by the regular       *)
(* expressions of parseQuizResponse that it matches.                       *)
(***************************************************************************)
EXTENDS Integers, Sequences, FiniteSets, TLC

VARIABLES
    \* ---- parseQuizResponse ----
    qpc,          \* position in parseQuizResponse: "start", "block", "scan", "done"
    qresp,        \* the response: [isString, nBlocks]
    blockIndex,   \* index of the block being processed (1-based)
    nLines,       \* lines.length of the current block
    scan,         \* loop state of the current block (i, options, correctAnswer, ...)
    questions,    \* the questions array built so far
    qcur,         \* history: what the lines of the current block looked like
    qhist         \* history: per finished block, the verdict on the input block

quizVars == <<qpc, qresp, blockIndex, nLines, scan, questions, qcur, qhist>>

VARIABLES
    \* ---- generateRealTimestamps and Video.generateSummary ----
    tpc,          \* "start", "generated", "saved", "rejected"
    segments,     \* transcriptSegments: sequence of [start (in ms), text]
    keyTopics,    \* extractKeyTopics(summaryContent)
    videoDuration,\* videoData.videoDuration, in seconds
    timestamps,   \* the array returned by generateRealTimestamps
    tmode,        \* which branch produced it: "none", "real", "estimated"
    savedTs       \* video.summary.timestamps after a successful save

tsVars == <<tpc, segments, keyTopics, videoDuration, timestamps, tmode, savedTs>>

VARIABLES
    \* ---- parseNotesResponse and processSectionContent ----
    npc,          \* "start", "done"
    nresponse,    \* the provider response: [isString, text]
    ncalls,       \* one entry per processSectionContent call: [title, content, sections]
    nresult       \* the object returned: [content, sections]

notesVars == <<npc, nresponse, ncalls, nresult>>

VARIABLES
    \* ---- the request handlers of aiController.js ----
    video,        \* the Video document in the database
    reqs,         \* per request slot: parameters, position, local variables, response
    started       \* number of requests started so far

ctlVars == <<video, reqs, started>>

VARIABLES
    \* ---- the transcript on its way into a prompt (aiHelper.js 16-21, 93-104) ----
    ppc,          \* "start", "done"
    pfor,         \* "summary" or "notes": which generator builds the prompt
    ptranscript,  \* videoData.transcript: its sentences and whether it ends with a full stop
    pembedded     \* what the prompt embeds: length, number of chunks, whether it was reduced

promptVars == <<ppc, pfor, ptranscript, pembedded>>

VARIABLES
    \* ---- one provider call and the way of its error to the caller ----
    apc,          \* "start", "returned", "thrown", "rethrown", "responded"
    aprovider,    \* "gemini", "openai", "claude"
    atype,        \* "summary", "quiz", "notes"
    acause,       \* what happens to the call: see Causes
    aerror,       \* the Error in flight: its message
    aresponse     \* the answer of the handler: [status, error, message]

callVars == <<apc, aprovider, atype, acause, aerror, aresponse>>

VARIABLES
    \* ---- parseSummaryContent (aiHelper.js 617-625) ----
    spc,          \* "start", "done"
    sresponse,    \* the provider's text: a sequence of tokens
    scontent      \* the summary content returned

sumVars == <<spc, sresponse, scontent>>

vars == <<quizVars, tsVars, notesVars, ctlVars, promptVars, callVars, sumVars>>

(***************************************************************************)
(* Bounds                                                                  *)
(***************************************************************************)
MaxBlocks == 2      \* QUESTION blocks in one response
MaxLines == 7       \* non-empty lines in one block

(***************************************************************************)
(* Lines of a quiz block                                                   *)
(*   text        matches none of the three patterns                        *)
(*   option      matches /^([A-D])[\)\.]?\s*(.+)$/ only                    *)
(*   correct     matches /^(?:CORRECT|ANSWER):\s*([A-D])/i ; the flag /i   *)
(*               lets the keyword and the letter be lower case; kwUpper    *)
(*               says that the keyword starts with a capital C or A, so    *)
(*               that the line also matches the option pattern             *)
(*   explanation matches /^EXPLANATION:\s*(.+)$/i                          *)
(***************************************************************************)
CorrectLetters == {"A", "D", "a"}

QuizLines ==
    {[kind |-> "text", letter |-> "-", kwUpper |-> FALSE],
     [kind |-> "option", letter |-> "-", kwUpper |-> FALSE],
     [kind |-> "explanation", letter |-> "-", kwUpper |-> FALSE]}
    \cup [kind : {"correct"}, letter : CorrectLetters, kwUpper : BOOLEAN]

\* String.prototype.charCodeAt(0) of the letters used
charCodeAt(letter) ==
    CASE letter = "A" -> 65
      [] letter = "B" -> 66
      [] letter = "C" -> 67
      [] letter = "D" -> 68
      [] letter = "a" -> 97
      [] letter = "d" -> 100
      [] OTHER -> 0

matchesCorrect(line) == line.kind = "correct"
matchesExplanation(line) == line.kind = "explanation"
matchesOption(line) ==
    \/ line.kind = "option"
    \/ line.kind = "correct" /\ line.kwUpper

\* state of the inner loop before the first line after the question text
ScanInit ==
    [i |-> 1, options |-> <<>>, correctAnswer |-> -1, explanation |-> "",
     foundCorrect |-> FALSE, foundExplanation |-> FALSE]

\* one iteration of the inner for loop (aiHelper.js 689-723); i is advanced
\* by the caller.  After the break nothing changes any more.
scanLine(s, line) ==
    IF s.foundCorrect /\ s.foundExplanation THEN s
    ELSE IF ~s.foundCorrect /\ matchesCorrect(line)
         THEN [s EXCEPT !.correctAnswer = charCodeAt(line.letter) - charCodeAt("A"),
                        !.foundCorrect = TRUE]
    ELSE IF ~s.foundExplanation /\ matchesExplanation(line)
         THEN [s EXCEPT !.explanation = "text", !.foundExplanation = TRUE]
    ELSE IF Len(s.options) < 4 /\ matchesOption(line)
         THEN [s EXCEPT !.options = Append(@, "text")]
    ELSE s

\* the minimum number of lines of a block (aiHelper.js 680)
MinBlockLines == 6

\* a length check that also asks for the EXPLANATION line
tooFewLinesWithExplanation(n) == n < MinBlockLines + 1

tooFewLines(n) == n < MinBlockLines

\* a question that dropped the upper bound of the index check
validQuestionNoUpper(hasText, s) ==
    hasText /\ Len(s.options) = 4 /\ s.correctAnswer >= 0

\* the validation of a block (aiHelper.js 726)
validQuestion(hasText, s) ==
    hasText /\ Len(s.options) = 4 /\ s.correctAnswer >= 0 /\ s.correctAnswer < 4

\* the text of the question of block b is identified by b
makeQuestion(b, s) ==
    [question |-> b, options |-> s.options, correctAnswer |-> s.correctAnswer,
     explanation |-> IF s.explanation = "" THEN "No explanation provided." ELSE s.explanation]

(***************************************************************************)
(* History of the input, kept per block for the properties: whether the    *)
(* block has a first line, how many lines after the first are option lines *)
(* (kind option), how many start with an option letter (match the option   *)
(* pattern), whether a CORRECT/ANSWER line with a capital A-D is present,  *)
(* and how far the block follows the grammar of the prompt                 *)
(*   question, 4 option lines, CORRECT line, optional EXPLANATION line     *)
(* (gram: 0..4 options seen, 5 after CORRECT, 6 after EXPLANATION, 9 off). *)
(***************************************************************************)
HistInit == [n |-> 0, optionLines |-> 0, optionForm |-> 0, validCorrect |-> FALSE,
             gram |-> 0]

validCorrectLine(line) == line.kind = "correct" /\ line.letter \in {"A", "B", "C", "D"}

gramStep(g, line) ==
    IF g < 4 /\ line.kind = "option" THEN g + 1
    ELSE IF g = 4 /\ validCorrectLine(line) THEN 5
    ELSE IF g = 5 /\ line.kind = "explanation" THEN 6
    ELSE 9

histLine(h, line) ==
    [h EXCEPT !.optionLines = @ + (IF line.kind = "option" THEN 1 ELSE 0),
              !.optionForm = @ + (IF matchesOption(line) THEN 1 ELSE 0),
              !.validCorrect = @ \/ validCorrectLine(line),
              !.gram = gramStep(@, line)]

\* the verdict on a finished input block h, and whether the parser kept it:
\*   lacking    no question text, fewer than 4 lines starting with an option
\*              letter, or no CORRECT/ANSWER line with a capital A-D
\*   literal    question text, exactly 4 option lines, a valid CORRECT line
\*   canonical  written in the grammar of the prompt
histVerdict(h, keep) ==
    [lacking |-> (h.n < 1 \/ h.optionForm < 4 \/ ~h.validCorrect),
     literal |-> (h.n >= 1 /\ h.optionLines = 4 /\ h.validCorrect),
     canonical |-> (h.n >= 1 /\ h.gram \in {5, 6}),
     kept |-> keep]

(***************************************************************************)
(* parseQuizResponse as a state machine                                    *)
(***************************************************************************)
QuizInit ==
    /\ qpc = "start"
    /\ qresp \in [isString : BOOLEAN, nBlocks : 0..MaxBlocks]
    /\ blockIndex = 0
    /\ nLines = 0
    /\ scan = ScanInit
    /\ questions = <<>>
    /\ qcur = HistInit
    /\ qhist = <<>>

\* response.split on something that is not a string throws; the catch
\* returns { questions: [] } (aiHelper.js 742-745)
QuizCatch ==
    /\ qpc = "start"
    /\ ~qresp.isString
    /\ questions' = <<>>
    /\ qpc' = "done"
    /\ UNCHANGED <<qresp, blockIndex, nLines, scan, qcur, qhist>>
    /\ UNCHANGED <<tsVars, notesVars, ctlVars, promptVars, callVars, sumVars>>

\* split and slice(1): the loop over the blocks starts
QuizSplit ==
    /\ qpc = "start"
    /\ qresp.isString
    /\ qpc' = "block"
    /\ blockIndex' = 1
    /\ UNCHANGED <<qresp, nLines, scan, questions, qcur, qhist>>
    /\ UNCHANGED <<tsVars, notesVars, ctlVars, promptVars, callVars, sumVars>>

\* head of the outer loop: trim the block, split it into lines; a block of
\* fewer than 6 lines is skipped (continue) without being scanned
QuizBlock ==
    /\ qpc = "block"
    /\ blockIndex <= qresp.nBlocks
    /\ \E n \in 0..MaxLines :
         /\ nLines' = n
         /\ scan' = ScanInit
         /\ qcur' = [HistInit EXCEPT !.n = n]
         /\ qpc' = "scan"
    /\ UNCHANGED <<qresp, blockIndex, questions, qhist>>
    /\ UNCHANGED <<tsVars, notesVars, ctlVars, promptVars, callVars, sumVars>>

\* one line of the block after the first.  A block that the code skips or
\* stops scanning still has its lines: they go to the history only.
QuizScanLine ==
    /\ qpc = "scan"
    /\ scan.i < nLines
    /\ \E line \in QuizLines :
         /\ scan' = [(IF tooFewLines(nLines) THEN scan ELSE scanLine(scan, line))
                       EXCEPT !.i = scan.i + 1]
         /\ qcur' = histLine(qcur, line)
    /\ UNCHANGED <<qpc, qresp, blockIndex, nLines, questions, qhist>>
    /\ UNCHANGED <<tsVars, notesVars, ctlVars, promptVars, callVars, sumVars>>

\* end of the block: validate and push, or drop
QuizEndBlock ==
    /\ qpc = "scan"
    /\ scan.i >= nLines
    /\ LET keep == ~tooFewLines(nLines) /\ validQuestion(nLines >= 1, scan)
       IN /\ questions' = IF keep THEN Append(questions, makeQuestion(blockIndex, scan)) ELSE questions
          /\ qhist' = Append(qhist, histVerdict(qcur, keep))
    /\ blockIndex' = blockIndex + 1
    /\ qpc' = "block"
    /\ nLines' = 0
    /\ scan' = ScanInit
    /\ qcur' = HistInit
    /\ UNCHANGED <<qresp>>
    /\ UNCHANGED <<tsVars, notesVars, ctlVars, promptVars, callVars, sumVars>>

\* return { questions }
QuizReturn ==
    /\ qpc = "block"
    /\ blockIndex > qresp.nBlocks
    /\ qpc' = "done"
    /\ UNCHANGED <<qresp, blockIndex, nLines, scan, questions, qcur, qhist>>
    /\ UNCHANGED <<tsVars, notesVars, ctlVars, promptVars, callVars, sumVars>>

QuizNext ==
    \/ QuizCatch
    \/ QuizSplit
    \/ QuizBlock
    \/ QuizScanLine
    \/ QuizEndBlock
    \/ QuizReturn

(***************************************************************************)
(* Properties of parseQuizResponse                                         *)
(***************************************************************************)
KeptBlocks == {b \in 1..Len(qhist) : qhist[b].kept}

\* C1: every question returned by parseQuizResponse has exactly 4 options
\* and a correctAnswer index i with 0 <= i < 4.
C1_QuizInvariant ==
    \A j \in 1..Len(questions) :
        /\ Len(questions[j].options) = 4
        /\ questions[j].correctAnswer >= 0
        /\ questions[j].correctAnswer < Len(questions[j].options)

\* a response of two blocks, both kept, has been parsed to the end
C1_Witness ==
    /\ qpc = "done"
    /\ Len(questions) = 2
    /\ questions[1].correctAnswer = 0
    /\ questions[2].correctAnswer = 3

Digits == <<"0", "1", "2", "3", "4", "5", "6", "7", "8", "9">>

IsDigit(c) == \E d \in 1..10 : Digits[d] = c

DigitValue(c) == (CHOOSE d \in 1..10 : Digits[d] = c) - 1

\* Number.prototype.toString() of a non-negative integer
RECURSIVE toString(_)
toString(n) ==
    IF n < 10 THEN <<Digits[n + 1]>>
    ELSE toString(n \div 10) \o <<Digits[(n % 10) + 1]>>

\* String.prototype.padStart(targetLength, "0")
padStart(str, targetLength) ==
    IF Len(str) >= targetLength THEN str
    ELSE [k \in 1..(targetLength - Len(str)) |-> "0"] \o str

\* String.prototype.split(":")
RECURSIVE splitColon(_)
splitColon(str) ==
    IF \A k \in 1..Len(str) : str[k] # ":" THEN <<str>>
    ELSE LET k == CHOOSE j \in 1..Len(str) :
                      str[j] = ":" /\ \A m \in 1..(j - 1) : str[m] # ":"
         IN <<SubSeq(str, 1, k - 1)>> \o splitColon(SubSeq(str, k + 1, Len(str)))

\* Number(str) of a string of decimal digits; Number("") is 0
RECURSIVE Number(_)
Number(str) ==
    IF Len(str) = 0 THEN 0
    ELSE 10 * Number(SubSeq(str, 1, Len(str) - 1)) + DigitValue(str[Len(str)])

\* secondsToTimestamp(seconds) (aiHelper.js 998-1002).  The argument is a
\* JavaScript number of seconds that may have a fraction (offset / 1000); it
\* is given here in milliseconds, so that Math.floor(seconds / 60) is
\* ms \div 60000 and Math.floor(seconds % 60) is (ms % 60000) \div 1000.
secondsToTimestamp(ms) ==
    LET minutes == ms \div 60000
        remainingSeconds == (ms % 60000) \div 1000
    IN toString(minutes) \o <<":">> \o padStart(toString(remainingSeconds), 2)

\* parseTimeToSeconds that forgets the seconds part of MM:SS
parseTimeToSecondsMinutesOnly(timeString) ==
    LET parts == splitColon(timeString)
    IN IF Len(parts) = 2 THEN Number(parts[1]) * 60
       ELSE IF Len(parts) = 3
            THEN Number(parts[1]) * 3600 + Number(parts[2]) * 60 + Number(parts[3])
       ELSE 0

\* videoSchema.methods.parseTimeToSeconds (Video model 381-389)
parseTimeToSeconds(timeString) ==
    LET parts == splitColon(timeString)
    IN IF Len(parts) = 2 THEN Number(parts[1]) * 60 + Number(parts[2])
       ELSE IF Len(parts) = 3
            THEN Number(parts[1]) * 3600 + Number(parts[2]) * 60 + Number(parts[3])
       ELSE 0

AllDigits(str) == \A k \in 1..Len(str) : IsDigit(str[k])

\* timestampSchema.time: match /^\d{1,2}:\d{2}(:\d{2})?$/ (Video model 8)
matchesTimeSchema(timeString) ==
    LET parts == splitColon(timeString)
    IN /\ Len(parts) \in {2, 3}
       /\ \A k \in 1..Len(parts) : AllDigits(parts[k])
       /\ Len(parts[1]) \in {1, 2}
       /\ \A k \in 2..Len(parts) : Len(parts[k]) = 2

(***************************************************************************)
(* Transcript segments.  A segment is [start, text]: start is the offset   *)
(* in milliseconds (the code holds offset / 1000 seconds), text names the  *)
(* key topic that the segment's text includes ("none" when it includes no  *)
(* keyword).                                                               *)
(***************************************************************************)
MaxSegments == 12      \* every segment count up to this one is tried

SegmentCounts == (0..MaxSegments) \cup {59, 60, 80, 85}

Topics == {"examples", "summary"}

GapsMs == {500, 7000, 61500, 400000}

Orders == {"ascending", "descending", "pairs"}

\* start offset of segment i of n
segmentStart(i, n, order, gap) ==
    CASE order = "ascending" -> (i - 1) * gap
      [] order = "descending" -> (n - i) * gap
      [] order = "pairs" -> ((i - 1) \div 2) * gap

\* the text of segment i: every every-th segment speaks of a topic
segmentText(i, every) ==
    IF every > 0 /\ i % every = 0
    THEN (IF (i \div every) % 2 = 0 THEN "summary" ELSE "examples")
    ELSE "none"

TopicEvery == {0, 1, 3}

makeSegments(n, order, gap, every) ==
    [i \in 1..n |-> [start |-> segmentStart(i, n, order, gap), text |-> segmentText(i, every)]]

Durations == {0, 90, 1080, 3600, 7200, 36000}

\* segmentText.includes(topic)
segmentIncludes(segment, topic) == segment.text = topic

\* targetCount (aiHelper.js 965)
Min(a, b) == IF a < b THEN a ELSE b
Max(a, b) == IF a > b THEN a ELSE b
targetCount(segmentCount) == Min(8, Max(5, segmentCount \div 10))

\* Strategy 1 (aiHelper.js 968-976) from segment k on
RECURSIVE strategy1(_, _, _, _, _)
strategy1(segs, topics, target, k, acc) ==
    IF k > Len(segs) THEN acc
    ELSE IF (\E topic \in topics : segmentIncludes(segs[k], topic)) /\ Len(acc) < target
         THEN strategy1(segs, topics, target, k + 1, Append(acc, segs[k]))
         ELSE strategy1(segs, topics, target, k + 1, acc)

\* Strategy 2 (aiHelper.js 979-987), loop variable i (0-based)
RECURSIVE strategy2(_, _, _, _, _)
strategy2(segs, target, step, i, acc) ==
    IF ~(i < target /\ i * step < Len(segs)) THEN acc
    ELSE LET segment == segs[i * step + 1]
         IN IF \E k \in 1..Len(acc) : acc[k].start = segment.start
            THEN strategy2(segs, target, step, i + 1, acc)
            ELSE strategy2(segs, target, step, i + 1, Append(acc, segment))

\* Array.prototype.sort((a, b) => a.start - b.start): a stable sort
RECURSIVE insertByStart(_, _)
insertByStart(sorted, x) ==
    IF Len(sorted) = 0 THEN <<x>>
    ELSE IF sorted[Len(sorted)].start <= x.start THEN Append(sorted, x)
    ELSE Append(insertByStart(SubSeq(sorted, 1, Len(sorted) - 1), x), sorted[Len(sorted)])

RECURSIVE sortFrom(_, _, _)
sortFrom(seq, k, acc) ==
    IF k > Len(seq) THEN acc ELSE sortFrom(seq, k + 1, insertByStart(acc, seq[k]))

\* findRelevantSegments that returns the segments in the order found
unsortedByStart(seq) == seq

sortByStart(seq) == sortFrom(seq, 1, <<>>)

\* findRelevantSegments (aiHelper.js 962-991)
findRelevantSegments(segs, topics) ==
    LET segmentCount == Len(segs)
        target == targetCount(segmentCount)
        found == strategy1(segs, topics, target, 1, <<>>)
        filled == IF Len(found) < target
                  THEN strategy2(segs, target, segmentCount \div target, 0, found)
                  ELSE found
    IN sortByStart(filled)

\* the structure of generateEstimatedTimestamps (aiHelper.js 1029-1037),
\* percentages in hundredths
defaultStructure ==
    <<[percentage |-> 5, label |-> "Introduction"],
      [percentage |-> 15, label |-> "Overview"],
      [percentage |-> 30, label |-> "Main Concepts"],
      [percentage |-> 50, label |-> "Examples"],
      [percentage |-> 70, label |-> "Advanced Topics"],
      [percentage |-> 85, label |-> "Best Practices"],
      [percentage |-> 95, label |-> "Summary"]>>

\* 18 * 60 (aiHelper.js 1054)
estimatedDuration == 1080

\* the double product d * 0.7 is rounded to a value below the whole number n
\* that it should be: 0.7 is stored as a double slightly below 7/10, and the
\* product rounds back to n only when n is at most 7/8 of the next power of two
roundsBelow(n) == \E j \in 0..20 : n < 2^j /\ 8 * n > 7 * 2^j

\* Math.floor(videoDuration * item.percentage) (aiHelper.js 1042, 1056) for
\* a duration of whole seconds up to 40,000 and the seven percentages (given
\* in hundredths): the floor of the double product is the floor of the exact
\* product, except for 0.7 when the exact product is a whole number n with
\* roundsBelow(n); then the double product is below n and its floor is n - 1
floorOfProduct(d, percentage) ==
    LET exact == (d * percentage) \div 100
    IN IF percentage = 70 /\ (d * percentage) % 100 = 0 /\ roundsBelow(exact)
       THEN exact - 1
       ELSE exact

\* an estimate that never uses the duration of the video
effectiveDurationDefault(duration) == estimatedDuration

\* the duration the percentages are taken of (aiHelper.js 1040, 1054)
effectiveDuration(duration) == IF duration > 0 THEN duration ELSE estimatedDuration

\* generateEstimatedTimestamps (aiHelper.js 1021-1069)
generateEstimatedTimestamps(duration) ==
    LET d == effectiveDuration(duration)
    IN [k \in 1..Len(defaultStructure) |->
          [time |-> secondsToTimestamp(
                        floorOfProduct(d, defaultStructure[k].percentage) * 1000),
           text |-> defaultStructure[k].label]]

\* the map of generateRealTimestamps (aiHelper.js 643-646)
toTimestamps(relevant) ==
    [k \in 1..Len(relevant) |->
        [time |-> secondsToTimestamp(relevant[k].start), text |-> relevant[k].text]]

TsInit ==
    /\ tpc = "start"
    /\ \E n \in SegmentCounts, order \in Orders, gap \in GapsMs, every \in TopicEvery :
          segments = makeSegments(n, order, gap, every)
    /\ keyTopics \in SUBSET Topics
    /\ videoDuration \in Durations
    /\ timestamps = <<>>
    /\ tmode = "none"
    /\ savedTs = <<>>

\* generateRealTimestamps without segments (aiHelper.js 629-632)
TsGenerateEstimated ==
    /\ tpc = "start"
    /\ Len(segments) = 0
    /\ timestamps' = generateEstimatedTimestamps(videoDuration)
    /\ tmode' = "estimated"
    /\ tpc' = "generated"
    /\ UNCHANGED <<segments, keyTopics, videoDuration, savedTs>>
    /\ UNCHANGED <<quizVars, notesVars, ctlVars, promptVars, callVars, sumVars>>

\* generateRealTimestamps with segments (aiHelper.js 634-649)
TsGenerateReal ==
    /\ tpc = "start"
    /\ Len(segments) > 0
    /\ timestamps' = toTimestamps(findRelevantSegments(segments, keyTopics))
    /\ tmode' = "real"
    /\ tpc' = "generated"
    /\ UNCHANGED <<segments, keyTopics, videoDuration, savedTs>>
    /\ UNCHANGED <<quizVars, notesVars, ctlVars, promptVars, callVars, sumVars>>

\* video.generateSummary(content, timestamps) (Video model 324-336): the
\* seconds are derived from the time strings, then save() validates
TsSave ==
    /\ tpc = "generated"
    /\ \A k \in 1..Len(timestamps) : matchesTimeSchema(timestamps[k].time)
    /\ savedTs' = [k \in 1..Len(timestamps) |->
                     [time |-> timestamps[k].time,
                      seconds |-> parseTimeToSeconds(timestamps[k].time),
                      text |-> timestamps[k].text]]
    /\ tpc' = "saved"
    /\ UNCHANGED <<segments, keyTopics, videoDuration, timestamps, tmode>>
    /\ UNCHANGED <<quizVars, notesVars, ctlVars, promptVars, callVars, sumVars>>

\* save() rejects the document: a time string fails the schema's match
TsSaveRejected ==
    /\ tpc = "generated"
    /\ \E k \in 1..Len(timestamps) : ~matchesTimeSchema(timestamps[k].time)
    /\ tpc' = "rejected"
    /\ UNCHANGED <<segments, keyTopics, videoDuration, timestamps, tmode, savedTs>>
    /\ UNCHANGED <<quizVars, notesVars, ctlVars, promptVars, callVars, sumVars>>

TsNext ==
    \/ TsGenerateEstimated
    \/ TsGenerateReal
    \/ TsSave
    \/ TsSaveRejected

(***************************************************************************)
(* Properties of the timestamp aligner                                     *)
(***************************************************************************)
SecondsOf(k) == parseTimeToSeconds(timestamps[k].time)

\* C6: in both modes the timestamps returned by generateRealTimestamps are
\* in non-decreasing order of seconds.
C6_Monotonic ==
    \A k \in 1..(Len(timestamps) - 1) : SecondsOf(k) <= SecondsOf(k + 1)

\* transcript-backed mode on segments that are not in ascending order, the
\* keyword matches found late and the top-up taken from the front
C6_Witness ==
    /\ tpc = "generated"
    /\ tmode = "real"
    /\ Len(segments) >= 2
    /\ segments[1].start > segments[2].start
    /\ Len(timestamps) >= 5
    /\ SecondsOf(1) < SecondsOf(Len(timestamps))

\* C7: every time string produced by the aligner survives the round trip
\* string -> seconds -> string, and the persisted seconds field and the time
\* string of a timestamp are derivable from each other.
C7_RoundTrip ==
    /\ \A k \in 1..Len(timestamps) :
          secondsToTimestamp(parseTimeToSeconds(timestamps[k].time) * 1000)
              = timestamps[k].time
    /\ \A k \in 1..Len(savedTs) :
          /\ savedTs[k].seconds = parseTimeToSeconds(savedTs[k].time)
          /\ secondsToTimestamp(savedTs[k].seconds * 1000) = savedTs[k].time
          /\ savedTs[k].time = timestamps[k].time

\* a saved timestamp beyond one hour whose seconds part is not zero, made
\* from a segment offset with a fraction of a second
C7_Witness ==
    /\ tpc = "saved"
    /\ \E k \in 1..Len(savedTs) :
          savedTs[k].seconds > 3600 /\ savedTs[k].seconds % 60 # 0
    /\ \E k \in 1..Len(segments) : segments[k].start % 1000 # 0

\* C8: the time string is MM:SS below one hour and HH:MM:SS from 3600 s on.
C8_TimeForm ==
    \A k \in 1..Len(timestamps) :
        LET parts == splitColon(timestamps[k].time)
        IN IF SecondsOf(k) < 3600
           THEN Len(parts) = 2 /\ Number(parts[1]) * 60 + Number(parts[2]) = SecondsOf(k)
           ELSE Len(parts) = 3

\* the segments selected in transcript-backed mode
Selected == findRelevantSegments(segments, keyTopics)

\* C22: in transcript-backed mode the number of timestamps returned never
\* exceeds the target count min(8, max(5, floor(segmentCount / 10))).
C22_AtMostTarget ==
    (tpc = "generated" /\ tmode = "real")
    => Len(timestamps) <= Min(8, Max(5, Len(segments) \div 10))

\* C23: in transcript-backed mode no two returned entries have the same
\* start time.
C23_DistinctStarts ==
    (tpc = "generated" /\ tmode = "real")
    => /\ Len(timestamps) = Len(Selected)
       /\ \A i, j \in 1..Len(Selected) :
             i # j => Selected[i].start # Selected[j].start

\* the seven percentages of the structural points
StructurePercentages == <<5, 15, 30, 50, 70, 85, 95>>

\* the duration the estimate is based on
EstimateBase == IF videoDuration > 0 THEN videoDuration ELSE 1080

\* C24 as stated: without segments exactly seven timestamps are produced, at
\* floor(d * p) seconds for the seven percentages p, d being the duration if
\* known and 1080 otherwise; every time lies in [0, d].
C24_Original ==
    (tpc = "generated" /\ tmode = "estimated")
    => /\ Len(timestamps) = 7
       /\ \A k \in 1..7 :
             /\ parseTimeToSeconds(timestamps[k].time)
                  = (EstimateBase * StructurePercentages[k]) \div 100
             /\ parseTimeToSeconds(timestamps[k].time) \in 0..EstimateBase

\* C24 as amended: exactly seven timestamps, each in [0, d], at floor(d * p)
\* seconds, except that the point at 70% is one second earlier for some
\* durations d for which 0.7 * d is a whole number (the product is computed
\* in double precision and falls just below that number, as for d = 90).
C24_Estimated ==
    (tpc = "generated" /\ tmode = "estimated")
    => /\ Len(timestamps) = 7
       /\ \A k \in 1..7 :
             LET exact == (EstimateBase * StructurePercentages[k]) \div 100
                 seconds == parseTimeToSeconds(timestamps[k].time)
             IN /\ seconds \in 0..EstimateBase
                /\ seconds \in {exact, exact - 1}
                /\ seconds # exact
                     => /\ StructurePercentages[k] = 70
                        /\ (EstimateBase * 70) % 100 = 0

\* the estimate for a video of two hours has its fourth point at 60:00
C24_Witness ==
    /\ tpc = "generated" /\ tmode = "estimated"
    /\ videoDuration = 7200
    /\ parseTimeToSeconds(timestamps[4].time) = 3600
    /\ parseTimeToSeconds(timestamps[7].time) = 6840

\* C26: every timestamp the aligner produces, in either mode, has a time
\* string that the timestamp schema of the Video model accepts, so that the
\* save of a generated summary never fails on the format of a timestamp.
C26_TimesMatchSchema ==
    tpc = "generated"
    => \A k \in 1..Len(timestamps) : matchesTimeSchema(timestamps[k].time)

(***************************************************************************)
(* Text of the notes code.  A string is a sequence of runs of characters:  *)
(*   nl  one line break                                                    *)
(*   sp  n blanks                                                          *)
(*   tx  n characters of text that starts and ends with a non-blank and    *)
(*       holds no line break; id tells one text from another               *)
(*   hd  a text that starts a header line (## Title, I. Title, A. Title)   *)
(* The length of a string, trim(), split('\n') and + are exact on runs.    *)
(***************************************************************************)
NL == [t |-> "nl", id |-> 0, n |-> 1]
SP(n) == [t |-> "sp", id |-> 0, n |-> n]
TX(id, n) == [t |-> "tx", id |-> id, n |-> n]
HD(id, n) == [t |-> "hd", id |-> id, n |-> n]

IsBlankRun(run) == run.t \in {"nl", "sp"}

\* String.prototype.length
RECURSIVE StrLen(_)
StrLen(str) ==
    IF Len(str) = 0 THEN 0 ELSE str[1].n + StrLen(Tail(str))

\* str.trim() is the empty string
IsBlank(str) == \A k \in 1..Len(str) : IsBlankRun(str[k])

\* String.prototype.trim()
trim(str) ==
    IF IsBlank(str) THEN <<>>
    ELSE LET first == CHOOSE k \in 1..Len(str) :
                          ~IsBlankRun(str[k]) /\ \A m \in 1..(k - 1) : IsBlankRun(str[m])
             last == CHOOSE k \in 1..Len(str) :
                          ~IsBlankRun(str[k]) /\ \A m \in (k + 1)..Len(str) : IsBlankRun(str[m])
         IN SubSeq(str, first, last)

\* String.prototype.split('\n')
RECURSIVE splitLines(_)
splitLines(str) ==
    IF \A k \in 1..Len(str) : str[k].t # "nl" THEN <<str>>
    ELSE LET k == CHOOSE j \in 1..Len(str) :
                      str[j].t = "nl" /\ \A m \in 1..(j - 1) : str[m].t # "nl"
         IN <<SubSeq(str, 1, k - 1)>> \o splitLines(SubSeq(str, k + 1, Len(str)))

\* Array.prototype.join('\n')
RECURSIVE joinLines(_)
joinLines(lines) ==
    IF Len(lines) = 0 THEN <<>>
    ELSE IF Len(lines) = 1 THEN lines[1]
    ELSE lines[1] \o <<NL>> \o joinLines(Tail(lines))

\* the limit of processSectionContent (aiHelper.js 1078)
MAX_SECTION_CONTENT == 10000

\* the title of part sectionIndex of a section (aiHelper.js 1104, 1122):
\* the title itself for the first part, "title (Part n)" for the others
partTitle(title, sectionIndex) == [name |-> title, part |-> sectionIndex]

makeSection(title, sectionIndex, content) ==
    [title |-> partTitle(title, sectionIndex), content |-> content, timestamp |-> 0]

\* a split that starts the next part empty and loses the line that did not fit
startNewSectionEmpty(line) == <<>>

\* "Start new section with current line" (aiHelper.js 1112)
startNewSection(line) == line \o <<NL>>

\* the loop of processSectionContent (aiHelper.js 1098-1126) from line k on
RECURSIVE splitLoop(_, _, _, _, _, _)
splitLoop(title, lines, k, currentSectionContent, sectionIndex, sections) ==
    IF k > Len(lines)
    THEN IF ~IsBlank(currentSectionContent)
         THEN Append(sections, makeSection(title, sectionIndex, trim(currentSectionContent)))
         ELSE sections
    ELSE IF StrLen(currentSectionContent \o lines[k] \o <<NL>>) > MAX_SECTION_CONTENT
         THEN IF ~IsBlank(currentSectionContent)
              THEN splitLoop(title, lines, k + 1, startNewSection(lines[k]), sectionIndex + 1,
                             Append(sections,
                                    makeSection(title, sectionIndex, trim(currentSectionContent))))
              ELSE splitLoop(title, lines, k + 1, startNewSection(lines[k]), sectionIndex,
                             sections)
         ELSE splitLoop(title, lines, k + 1, currentSectionContent \o lines[k] \o <<NL>>,
                        sectionIndex, sections)

\* processSectionContent (aiHelper.js 1077-1130)
processSectionContent(title, content) ==
    IF StrLen(content) <= MAX_SECTION_CONTENT
    THEN <<makeSection(title, 1, content)>>
    ELSE splitLoop(title, splitLines(content), 1, <<>>, 1, <<>>)

\* one processSectionContent call, kept with its arguments
sectionCall(title, content) ==
    [title |-> title, content |-> content, sections |-> processSectionContent(title, content)]

\* the three header patterns of parseNotesResponse (aiHelper.js 766)
isHeader(line) == Len(line) > 0 /\ line[1].t = "hd"

\* headerMatch[1].trim() (aiHelper.js 778)
headerTitle(line) == <<"header", line[1].id>>

NoSection == <<"null", 0>>

\* the loop of parseNotesResponse (aiHelper.js 764-791) from line k on; the
\* result is the list of processSectionContent calls made
RECURSIVE notesLoop(_, _, _, _, _)
notesLoop(lines, k, currentSection, currentContent, calls) ==
    IF k > Len(lines)
    THEN IF currentSection # NoSection
         THEN Append(calls, sectionCall(currentSection, trim(joinLines(currentContent))))
         ELSE calls
    ELSE IF isHeader(lines[k])
         THEN notesLoop(lines, k + 1, headerTitle(lines[k]), <<>>,
                        IF currentSection # NoSection
                        THEN Append(calls, sectionCall(currentSection,
                                                       trim(joinLines(currentContent))))
                        ELSE calls)
    ELSE IF ~IsBlank(lines[k])
         THEN notesLoop(lines, k + 1, currentSection, Append(currentContent, lines[k]), calls)
    ELSE notesLoop(lines, k + 1, currentSection, currentContent, calls)

\* sections.push(...processedSections) over all calls
RECURSIVE allSections(_)
allSections(calls) ==
    IF Len(calls) = 0 THEN <<>> ELSE calls[1].sections \o allSections(Tail(calls))

\* truncateText(text, maxLength) (aiHelper.js 1010-1013), of which the
\* result's length and whether the text was cut are kept
truncateText(text, maxLength) ==
    IF StrLen(text) <= maxLength
    THEN [len |-> StrLen(text), cut |-> FALSE]
    ELSE [len |-> maxLength, cut |-> TRUE]

\* a parser without the fallback section of aiHelper.js 794-797
notesCallsNoFallback(response) ==
    notesLoop(splitLines(trim(response)), 1, NoSection, <<>>, <<>>)

\* the calls made by parseNotesResponse on a string (aiHelper.js 756-797)
notesCalls(response) ==
    LET content == trim(response)
        calls == notesLoop(splitLines(content), 1, NoSection, <<>>, <<>>)
    IN IF Len(allSections(calls)) = 0
       THEN <<sectionCall(<<"Notes", 0>>, content)>>
       ELSE calls

(***************************************************************************)
(* Responses: up to MaxNoteLines lines, each of one of the shapes below;   *)
(* line i holds the text i.                                                *)
(***************************************************************************)
MaxNoteLines == 4

LineShapes == {"empty", "blanks", "header", "short", "indented", "large", "limit", "over"}

lineOf(shape, i) ==
    CASE shape = "empty" -> <<>>
      [] shape = "blanks" -> <<SP(2)>>
      [] shape = "header" -> <<HD(i, 12)>>
      [] shape = "short" -> <<TX(i, 40)>>
      [] shape = "indented" -> <<SP(2), TX(i, 3996), SP(1)>>
      [] shape = "large" -> <<TX(i, 6000)>>
      [] shape = "limit" -> <<TX(i, 10000)>>
      [] shape = "over" -> <<TX(i, 10001)>>

responseOf(shapes) == joinLines([i \in 1..Len(shapes) |-> lineOf(shapes[i], i)])

NotesInit ==
    /\ npc = "start"
    /\ \E n \in 0..MaxNoteLines :
         \E shapes \in [1..n -> LineShapes] :
            nresponse \in {[isString |-> TRUE, text |-> responseOf(shapes)]}
                           \cup (IF n = 0 THEN {[isString |-> FALSE, text |-> <<>>]} ELSE {})
    /\ ncalls = <<>>
    /\ nresult = [content |-> [len |-> 0, cut |-> FALSE], sections |-> <<>>]

\* parseNotesResponse on a string (aiHelper.js 755-803)
NotesParse ==
    /\ npc = "start"
    /\ nresponse.isString
    /\ ncalls' = notesCalls(nresponse.text)
    /\ nresult' = [content |-> truncateText(trim(nresponse.text), 15000),
                   sections |-> allSections(notesCalls(nresponse.text))]
    /\ npc' = "done"
    /\ UNCHANGED nresponse
    /\ UNCHANGED <<quizVars, tsVars, ctlVars, promptVars, callVars, sumVars>>

\* response.trim() throws on undefined: the catch returns one section
\* 'Notes' with the text 'Failed to generate notes' (aiHelper.js 804-815)
NotesCatch ==
    /\ npc = "start"
    /\ ~nresponse.isString
    /\ ncalls' = <<>>
    /\ nresult' = [content |-> truncateText(<<TX(0, 24)>>, 15000),
                   sections |-> <<[title |-> partTitle(<<"Notes", 0>>, 1),
                                   content |-> <<TX(0, 24)>>, timestamp |-> 0]>>]
    /\ npc' = "done"
    /\ UNCHANGED nresponse
    /\ UNCHANGED <<quizVars, tsVars, ctlVars, promptVars, callVars, sumVars>>

NotesNext ==
    \/ NotesParse
    \/ NotesCatch

(***************************************************************************)
(* Properties of the notes parser                                          *)
(***************************************************************************)
\* C9: no section returned by parseNotesResponse has a content longer than
\* 10,000 characters.
C9_SectionCap ==
    \A k \in 1..Len(nresult.sections) :
        StrLen(nresult.sections[k].content) <= MAX_SECTION_CONTENT

\* the contents of the parts, one after the other
RECURSIVE concatContents(_)
concatContents(sections) ==
    IF Len(sections) = 0 THEN <<>>
    ELSE sections[1].content \o concatContents(Tail(sections))

SplitCalls == {c \in 1..Len(ncalls) : StrLen(ncalls[c].content) > MAX_SECTION_CONTENT}

\* C10 as stated: when a content longer than 10,000 characters is split,
\* the contents of the parts concatenated in order are the original content.
C10_Original ==
    \A c \in SplitCalls : concatContents(ncalls[c].sections) = ncalls[c].content

\* from position pos on, content consists of the parts j, j+1, ... in order,
\* with nothing but blanks and line breaks before, between and after them
RECURSIVE PartsCover(_, _, _, _)
PartsCover(content, pos, parts, j) ==
    IF j > Len(parts) THEN \A k \in pos..Len(content) : IsBlankRun(content[k])
    ELSE /\ \E k \in pos..Len(content) : ~IsBlankRun(content[k])
         /\ LET start == CHOOSE k \in pos..Len(content) :
                             ~IsBlankRun(content[k])
                             /\ \A m \in pos..(k - 1) : IsBlankRun(content[m])
                part == parts[j].content
            IN /\ Len(part) > 0
               /\ start + Len(part) - 1 <= Len(content)
               /\ SubSeq(content, start, start + Len(part) - 1) = part
               /\ PartsCover(content, start + Len(part), parts, j + 1)

\* C10 as amended: the parts are titled title, (Part 2), (Part 3), ...; they
\* are consecutive pieces of the original content, in order, each trimmed,
\* and what lies between two parts is white space only (the line break at
\* which the content was cut, blanks and blank lines next to it): no text is
\* dropped, truncated, duplicated or reordered, but the concatenation of the
\* parts lacks that white space.
C10_Repartition ==
    \A c \in SplitCalls :
        LET parts == ncalls[c].sections
        IN /\ Len(parts) >= 1
           /\ \A j \in 1..Len(parts) :
                 /\ parts[j].title = partTitle(ncalls[c].title, j)
                 /\ parts[j].content = trim(parts[j].content)
           /\ PartsCover(ncalls[c].content, 1, parts, 1)
           /\ Len(parts) >= 2 =>
                 StrLen(concatContents(parts)) < StrLen(ncalls[c].content)

\* a section of three lines of 6,000 characters has been split in three
C10_Witness ==
    /\ npc = "done"
    /\ \E c \in SplitCalls :
          /\ Len(ncalls[c].sections) = 3
          /\ ncalls[c].sections[3].title.part = 3
          /\ ncalls[c].title[1] = "header"

\* the response was a string and none of its lines is a header line
NoHeaderParsed ==
    /\ npc = "done"
    /\ nresponse.isString
    /\ \A k \in 1..Len(splitLines(trim(nresponse.text))) :
           ~isHeader(splitLines(trim(nresponse.text))[k])

NotesTitle == <<"Notes", 0>>

IsText(run) == run.t = "tx"

\* C29: parseNotesResponse loses no content line: the texts of the
\* non-blank, non-header lines of the response are the texts of the returned
\* sections' contents, in the original order, including the lines that come
\* before the first header.
C29_NoLineLost ==
    (npc = "done" /\ nresponse.isString) =>
        SelectSeq(concatContents(nresult.sections), IsText)
          = SelectSeq(nresponse.text, IsText)

(***************************************************************************)
(* parseQuizResponse as a function of the blocks of a response, built from *)
(* the same loop body, for the request handlers.                           *)
(***************************************************************************)
RECURSIVE scanLines(_, _, _)
scanLines(s, lines, k) ==
    IF k > Len(lines) THEN s ELSE scanLines(scanLine(s, lines[k]), lines, k + 1)

parseBlock(b, lines) ==
    IF tooFewLines(Len(lines)) THEN <<>>
    ELSE LET s == scanLines(ScanInit, lines, 2)
         IN IF validQuestion(Len(lines) >= 1, s) THEN <<makeQuestion(b, s)>> ELSE <<>>

RECURSIVE parseBlocks(_, _)
parseBlocks(blocks, b) ==
    IF b > Len(blocks) THEN <<>>
    ELSE parseBlock(b, blocks[b]) \o parseBlocks(blocks, b + 1)

parseQuizResponse(blocks) == parseBlocks(blocks, 1)

TextLine == [kind |-> "text", letter |-> "-", kwUpper |-> FALSE]
OptionLine == [kind |-> "option", letter |-> "-", kwUpper |-> FALSE]
ExplanationLine == [kind |-> "explanation", letter |-> "-", kwUpper |-> FALSE]
CorrectLine == [kind |-> "correct", letter |-> "A", kwUpper |-> TRUE]

\* a block in the grammar of buildQuizPrompt (aiHelper.js 299-307)
GoodBlock == <<TextLine, OptionLine, OptionLine, OptionLine, OptionLine, CorrectLine,
               ExplanationLine>>

\* a block with three options only
BadBlock == <<TextLine, OptionLine, OptionLine, OptionLine, CorrectLine, ExplanationLine,
              TextLine>>

quizResponse(good, bad) ==
    [b \in 1..(good + bad) |-> IF b <= good THEN GoodBlock ELSE BadBlock]

\* the provider's answers to a quiz prompt: no QUESTION marker at all, only
\* malformed blocks, three or five well-formed blocks, three of five
QuizResponses ==
    {quizResponse(0, 0), quizResponse(0, 2), quizResponse(3, 0), quizResponse(3, 2),
     quizResponse(5, 0)}

\* the provider's answers to a notes prompt
NotesResponses ==
    {responseOf(<<"header", "short">>), responseOf(<<"short", "short">>),
     responseOf(<<"header", "over">>)}

\* the transcript of the video, when it has one
VideoSegments == makeSegments(12, "ascending", 61500, 3)

(***************************************************************************)
(* The request handlers.  A persisted result (summary, quiz, aiNotes) is   *)
(* [content, n, format]: content is 0 when it is absent or empty and else  *)
(* the number of the request that generated it, n the number of quiz       *)
(* questions, format the notes format.                                     *)
(***************************************************************************)
MaxRequests == 2     \* requests started in one run

Slots == {1, 2}      \* requests in progress at the same time

Empty == [content |-> 0, n |-> 0, format |-> "-"]

Kinds == {"summary", "quiz", "notes", "tutor", "clearQuiz"}

\* aiValidation.js: the values that pass the validation middleware
Providers == {"gemini", "claude"}
QuestionCounts == {3, 5}
Formats == {"bullet", "detailed"}

Callers == {"owner", "stranger", "novideo"}

VideoDurations == {0, 7200}

\* what YoutubeTranscript.fetchTranscript can do (youtubeApi.js 272-274):
\* return the segments, return an empty list, return nothing, throw
TranscriptOutcomes == {"segments", "empty", "missing", "throws"}

\* { text: '', segments: [], available: false } (youtubeApi.js 276-280 and
\* 304-309); text is the length of the text, segments their number
NoTranscript == [thrown |-> FALSE, available |-> FALSE, text |-> 0, segments |-> 0]

\* a getVideoTranscript whose catch block throws again
getVideoTranscriptRethrow(outcome) ==
    CASE outcome = "segments" ->
           [thrown |-> FALSE, available |-> TRUE, text |-> 1200,
            segments |-> Len(VideoSegments)]
      [] outcome \in {"empty", "missing"} -> NoTranscript
      [] outcome = "throws" -> [NoTranscript EXCEPT !.thrown = TRUE]

\* youtubeAPI.getVideoTranscript (youtubeApi.js 268-312): thrown tells
\* whether the call ends with an exception instead of a result
getVideoTranscript(outcome) ==
    CASE outcome = "segments" ->
           [thrown |-> FALSE, available |-> TRUE, text |-> 1200,
            segments |-> Len(VideoSegments)]
      [] outcome \in {"empty", "missing"} -> NoTranscript
      [] outcome = "throws" -> NoTranscript

IdleReq ==
    [id |-> 0, kind |-> "summary", provider |-> "gemini", questionCount |-> 5,
     format |-> "bullet", force |-> FALSE, who |-> "owner", pc |-> "idle",
     transcript |-> NoTranscript, summaryContent |-> 0, result |-> Empty,
     failed |-> FALSE, parseFailed |-> FALSE, status |-> 0, cached |-> FALSE, body |-> Empty,
     fetches |-> 0, calls |-> 0, writes |-> 0]

CtlInit ==
    /\ video \in [duration : VideoDurations, summary : {Empty}, quiz : {Empty},
                  aiNotes : {Empty}]
    /\ reqs = [s \in Slots |-> IdleReq]
    /\ started = 0

\* res.status(code).json(body): the request is over and the handler's local
\* variables are gone
respond(r, code, isCached, resource) ==
    [r EXCEPT !.pc = "done", !.status = code, !.cached = isCached, !.body = resource,
              !.transcript = NoTranscript, !.summaryContent = 0, !.result = Empty]

\* the video as findById returns it
loadDoc == video

\* the providers that requests name: two that pass the validation, one that
\* does not
RequestedProviders == Providers \cup {"mistral"}

\* a validation that lets every provider name through
providerValidationAny(provider) == TRUE

\* body('provider').optional().isIn([...]) (aiValidation.js 8, 16, 25)
providerValidation(provider) == provider \in {"gemini", "openai", "claude"}

\* a request arrives and passes the route's middleware (AI routes 24-58):
\* handleValidationErrors answers 400 when the provider fails the validation,
\* otherwise the handler starts; DELETE /quiz/:videoId has no validation.
\* A tutor request carries a message
CtlStart(s) ==
    /\ reqs[s].pc \in {"idle", "done"}
    /\ \A t \in Slots : t < s => reqs[t].pc # "idle"
    /\ started < MaxRequests
    /\ \E k \in Kinds, p \in RequestedProviders, qc \in QuestionCounts, f \in Formats,
          force \in BOOLEAN, w \in Callers :
          /\ w # "owner" => p \in {"gemini", "mistral"} /\ ~force
          /\ w = "novideo" => p = "gemini"
          /\ w # "owner" => qc = 5 /\ f = "bullet"
          /\ p \notin Providers => ~force /\ qc = 5 /\ f = "bullet"
          /\ k # "quiz" => qc = 5
          /\ k # "notes" => f = "bullet"
          /\ k \in {"clearQuiz", "tutor"} => ~force
          /\ k = "clearQuiz" => p = "gemini"
          /\ LET r == [IdleReq EXCEPT !.id = started + 1, !.kind = k, !.provider = p,
                                       !.questionCount = qc, !.format = f,
                                       !.force = force, !.who = w, !.pc = "load"]
             IN reqs' = [reqs EXCEPT ![s] =
                    IF k # "clearQuiz" /\ ~providerValidation(p)
                    THEN respond(r, 400, FALSE, Empty)
                    ELSE r]
    /\ started' = started + 1
    /\ UNCHANGED video
    /\ UNCHANGED <<quizVars, tsVars, notesVars, promptVars, callVars, sumVars>>

\* a handler that calls the provider again after a failed call
providerFailedRetry(called) == [called EXCEPT !.failed = TRUE]

\* a provider call threw: aiHelper's catch throws 'Failed to generate ...'
\* and the handler's catch answers 500 (aiHelper.js 47-50, 80-83, 122-125;
\* aiController.js 61-67, 148-154, 211-217)
providerFailed(called) == respond([called EXCEPT !.failed = TRUE], 500, FALSE, Empty)

\* the cache check of generateSummary (aiController.js 25)
summaryCached(doc) == doc.summary.content # 0

\* a quiz cache check that forgets the question count
quizCachedAnyCount(doc, questionCount) == doc.quiz.n > 0

\* the cache check of generateQuiz (aiController.js 91)
quizCached(doc, questionCount) == doc.quiz.n = questionCount

\* the cache check of generateNotes (aiController.js 178)
notesCached(doc, format) == doc.aiNotes.content # 0 /\ doc.aiNotes.format = format

\* a handler without the ownership test
accessCheckNoOwner(r) == IF r.who = "novideo" THEN 404 ELSE 0

\* findById, the 404 and 403 answers (aiController.js 16-23 and alike):
\* the answer code, or 0 when the handler goes on
accessCheck(r) ==
    IF r.who = "novideo" THEN 404
    ELSE IF r.who = "stranger" THEN 403
    ELSE 0

\* generateSummary up to the cache check (aiController.js 12-31)
SummaryLoad(s) ==
    LET r == reqs[s] IN
    /\ r.pc = "load" /\ r.kind = "summary"
    /\ reqs' = [reqs EXCEPT ![s] =
          IF accessCheck(r) # 0 THEN respond(r, accessCheck(r), FALSE, Empty)
          ELSE IF summaryCached(loadDoc)
               THEN respond(r, 200, TRUE, loadDoc.summary)
          ELSE [r EXCEPT !.pc = "transcript"]]
    /\ UNCHANGED <<video, started>>
    /\ UNCHANGED <<quizVars, tsVars, notesVars, promptVars, callVars, sumVars>>

\* generateQuiz up to the choice of the summary content (aiController.js 77-103)
QuizLoad(s) ==
    LET r == reqs[s] IN
    /\ r.pc = "load" /\ r.kind = "quiz"
    /\ reqs' = [reqs EXCEPT ![s] =
          IF accessCheck(r) # 0 THEN respond(r, accessCheck(r), FALSE, Empty)
          ELSE IF quizCached(loadDoc, r.questionCount)
               THEN respond(r, 200, TRUE, loadDoc.quiz)
          ELSE IF loadDoc.summary.content # 0
               THEN [r EXCEPT !.summaryContent = loadDoc.summary.content,
                              !.pc = "quiz"]
          ELSE [r EXCEPT !.pc = "transcript"]]
    /\ UNCHANGED <<video, started>>
    /\ UNCHANGED <<quizVars, tsVars, notesVars, promptVars, callVars, sumVars>>

\* generateNotes up to the cache check (aiController.js 164-184)
NotesLoad(s) ==
    LET r == reqs[s] IN
    /\ r.pc = "load" /\ r.kind = "notes"
    /\ reqs' = [reqs EXCEPT ![s] =
          IF accessCheck(r) # 0 THEN respond(r, accessCheck(r), FALSE, Empty)
          ELSE IF notesCached(loadDoc, r.format)
               THEN respond(r, 200, TRUE, loadDoc.aiNotes)
          ELSE [r EXCEPT !.pc = "transcript"]]
    /\ UNCHANGED <<video, started>>
    /\ UNCHANGED <<quizVars, tsVars, notesVars, promptVars, callVars, sumVars>>

\* clearQuiz up to video.quiz = undefined (aiController.js 266-279)
ClearLoad(s) ==
    LET r == reqs[s] IN
    /\ r.pc = "load" /\ r.kind = "clearQuiz"
    /\ reqs' = [reqs EXCEPT ![s] =
          IF accessCheck(r) # 0 THEN respond(r, accessCheck(r), FALSE, Empty)
          ELSE [r EXCEPT !.pc = "saveClear"]]
    /\ UNCHANGED <<video, started>>
    /\ UNCHANGED <<quizVars, tsVars, notesVars, promptVars, callVars, sumVars>>

\* askTutor up to the call of the helper (aiController.js 227-240)
TutorLoad(s) ==
    LET r == reqs[s] IN
    /\ r.pc = "load" /\ r.kind = "tutor"
    /\ reqs' = [reqs EXCEPT ![s] =
          IF accessCheck(r) # 0 THEN respond(r, accessCheck(r), FALSE, Empty)
          ELSE [r EXCEPT !.pc = "tutor"]]
    /\ UNCHANGED <<video, started>>
    /\ UNCHANGED <<quizVars, tsVars, notesVars, promptVars, callVars, sumVars>>

\* await youtubeAPI.getVideoTranscript(video.ytVideoId) in the three
\* handlers (aiController.js 36, 106, 189): an exception would end in the
\* handler's catch, a result lets the handler go on
FetchTranscript(s) ==
    LET r == reqs[s]
        fetched == [r EXCEPT !.fetches = r.fetches + 1]
    IN
    /\ r.pc = "transcript"
    /\ \E outcome \in TranscriptOutcomes :
          reqs' = [reqs EXCEPT ![s] =
             IF getVideoTranscript(outcome).thrown
             THEN respond(fetched, 500, FALSE, Empty)
             ELSE [fetched EXCEPT !.transcript = getVideoTranscript(outcome),
                                  !.pc = IF r.kind = "notes" THEN "notes"
                                         ELSE "summarize"]]
    /\ UNCHANGED <<video, started>>
    /\ UNCHANGED <<quizVars, tsVars, notesVars, promptVars, callVars, sumVars>>

\* the provider switch and callGeminiAPI / callOpenAIAPI / callClaudeAPI
\* (aiHelper.js 24-36, 503-610): whether the call can return a text.  A
\* missing key and a failed HTTP call both throw, callClaudeAPI always throws
providerCanAnswer(provider) == provider \in {"gemini", "openai"}

\* the timestamps that aiHelper.generateSummary returns for the video
summaryTimestamps(transcript) ==
    IF transcript.segments > 0
    THEN toTimestamps(findRelevantSegments(VideoSegments, {"examples"}))
    ELSE generateEstimatedTimestamps(video.duration)

timestampsValid(ts) == \A k \in 1..Len(ts) : matchesTimeSchema(ts[k].time)

\* a handler that goes on to the quiz whatever the summary
noSummaryContentIgnored(summaryContent) == FALSE

\* if (!summaryContent) of generateQuiz (aiController.js 121)
noSummaryContent(summaryContent) == summaryContent = 0

\* the provider's answer carries no text (callGeminiAPI returns the
\* undefined parts[0].text, aiHelper.js 538): response.replace throws in
\* parseSummaryContent, response.trim() throws again in its catch
\* (aiHelper.js 617-625), aiHelper.generateSummary's catch throws and the
\* handler's catch answers 500
summaryParseThrows(called) ==
    respond([called EXCEPT !.parseFailed = TRUE], 500, FALSE, Empty)

\* the same answer in parseQuizResponse: response.split throws and the catch
\* returns { questions: [] } (aiHelper.js 662-746)
quizParseCaught(called) ==
    [called EXCEPT !.parseFailed = TRUE,
                   !.result = [content |-> called.id, n |-> 0, format |-> "-"],
                   !.pc = "saveQuiz"]

\* the same answer in parseNotesResponse: response.trim() throws and the
\* catch returns the text 'Failed to generate notes' as content and as the
\* one section 'Notes' (aiHelper.js 759-816)
notesParseCaught(called) ==
    [called EXCEPT !.parseFailed = TRUE,
                   !.result = [content |-> called.id, n |-> 1,
                               format |-> called.format],
                   !.pc = "saveNotes"]

\* aiHelper.generateSummary (aiHelper.js 16-51) called by generateSummary
\* (aiController.js 48) and by generateQuiz (aiController.js 115-126)
Summarize(s) ==
    LET r == reqs[s]
        called == [r EXCEPT !.calls = r.calls + 1]
    IN
    /\ r.pc = "summarize"
    /\ \/ reqs' = [reqs EXCEPT ![s] = providerFailed(called)]
       \/ /\ providerCanAnswer(r.provider)
          /\ \E content \in {0, r.id} :
               reqs' = [reqs EXCEPT ![s] =
                  IF r.kind = "summary"
                  THEN [called EXCEPT
                          !.result = [content |-> content, n |-> 0, format |-> "-"],
                          !.pc = "saveSummary"]
                  ELSE IF noSummaryContent(content)
                       THEN respond(called, 400, FALSE, Empty)
                  ELSE [called EXCEPT !.summaryContent = content, !.pc = "quiz"]]
       \/ /\ providerCanAnswer(r.provider)
          /\ reqs' = [reqs EXCEPT ![s] = summaryParseThrows(called)]
    /\ UNCHANGED <<video, started>>
    /\ UNCHANGED <<quizVars, tsVars, notesVars, promptVars, callVars, sumVars>>

\* aiHelper.generateQuiz and the choice of the questions (aiHelper.js 60-84,
\* aiController.js 128-137)
GenerateQuiz(s) ==
    LET r == reqs[s]
        called == [r EXCEPT !.calls = r.calls + 1]
    IN
    /\ r.pc = "quiz"
    /\ \/ reqs' = [reqs EXCEPT ![s] = providerFailed(called)]
       \/ /\ providerCanAnswer(r.provider)
          /\ \E response \in QuizResponses :
               reqs' = [reqs EXCEPT ![s] =
                  [called EXCEPT
                     !.result = [content |-> r.id, n |-> Len(parseQuizResponse(response)),
                                 format |-> "-"],
                     !.pc = "saveQuiz"]]
       \/ /\ providerCanAnswer(r.provider)
          /\ reqs' = [reqs EXCEPT ![s] = quizParseCaught(called)]
    /\ UNCHANGED <<video, started>>
    /\ UNCHANGED <<quizVars, tsVars, notesVars, promptVars, callVars, sumVars>>

sectionsValid(sections) ==
    \A k \in 1..Len(sections) : StrLen(sections[k].content) <= 10000

\* aiHelper.generateNotes (aiHelper.js 93-126)
GenerateNotes(s) ==
    LET r == reqs[s]
        called == [r EXCEPT !.calls = r.calls + 1]
    IN
    /\ r.pc = "notes"
    /\ \/ reqs' = [reqs EXCEPT ![s] = providerFailed(called)]
       \/ /\ providerCanAnswer(r.provider)
          /\ \E response \in NotesResponses :
               reqs' = [reqs EXCEPT ![s] =
                  [called EXCEPT
                     !.result = [content |-> r.id,
                                 n |-> IF sectionsValid(allSections(notesCalls(response)))
                                       THEN Len(allSections(notesCalls(response)))
                                       ELSE -1,
                                 format |-> r.format],
                     !.pc = "saveNotes"]]
       \/ /\ providerCanAnswer(r.provider)
          /\ reqs' = [reqs EXCEPT ![s] = notesParseCaught(called)]
    /\ UNCHANGED <<video, started>>
    /\ UNCHANGED <<quizVars, tsVars, notesVars, promptVars, callVars, sumVars>>

\* aiHelper.askGeneralTutor and the answer (aiHelper.js 220-244,
\* aiController.js 242-256)
AskTutor(s) ==
    LET r == reqs[s]
        called == [r EXCEPT !.calls = r.calls + 1]
    IN
    /\ r.pc = "tutor"
    /\ \/ reqs' = [reqs EXCEPT ![s] = providerFailed(called)]
       \/ /\ providerCanAnswer(r.provider)
          /\ reqs' = [reqs EXCEPT ![s] =
                respond(called, 200, FALSE,
                        [content |-> r.id, n |-> 0, format |-> "-"])]
    /\ UNCHANGED <<video, started>>
    /\ UNCHANGED <<quizVars, tsVars, notesVars, promptVars, callVars, sumVars>>

\* a save that keeps the summary another request has stored meanwhile
writeSummaryOnce(v, result) ==
    IF v.summary.content # 0 THEN v ELSE [v EXCEPT !.summary = result]

\* this.summary = {...}; this.save() (Video model 324-336)
writeSummary(v, result) == [v EXCEPT !.summary = result]

\* video.generateSummary and the answer (aiController.js 50-67): the save
\* is rejected when a timestamp fails the schema
SaveSummary(s) ==
    LET r == reqs[s] IN
    /\ r.pc = "saveSummary"
    /\ IF timestampsValid(summaryTimestamps(r.transcript))
       THEN /\ video' = writeSummary(video, r.result)
            /\ reqs' = [reqs EXCEPT ![s] =
                  respond([r EXCEPT !.writes = r.writes + 1],
                          200, FALSE, r.result)]
       ELSE /\ reqs' = [reqs EXCEPT ![s] = respond(r, 500, FALSE, Empty)]
            /\ UNCHANGED video
    /\ UNCHANGED started
    /\ UNCHANGED <<quizVars, tsVars, notesVars, promptVars, callVars, sumVars>>

\* video.quiz = {...}; video.save() and the answer (aiController.js 133-146)
SaveQuiz(s) ==
    LET r == reqs[s] IN
    /\ r.pc = "saveQuiz"
    /\ video' = [video EXCEPT !.quiz = r.result]
    /\ reqs' = [reqs EXCEPT ![s] =
          respond([r EXCEPT !.writes = r.writes + 1],
                  200, FALSE, r.result)]
    /\ UNCHANGED started
    /\ UNCHANGED <<quizVars, tsVars, notesVars, promptVars, callVars, sumVars>>

\* video.generateNotes and the answer (aiController.js 199-217): the save is
\* rejected when a section content exceeds the schema's maxlength
SaveNotes(s) ==
    LET r == reqs[s] IN
    /\ r.pc = "saveNotes"
    /\ IF r.result.n >= 0
       THEN /\ video' = [video EXCEPT !.aiNotes = r.result]
            /\ reqs' = [reqs EXCEPT ![s] =
                  respond([r EXCEPT !.writes = r.writes + 1],
                          200, FALSE, r.result)]
       ELSE /\ reqs' = [reqs EXCEPT ![s] = respond(r, 500, FALSE, Empty)]
            /\ UNCHANGED video
    /\ UNCHANGED started
    /\ UNCHANGED <<quizVars, tsVars, notesVars, promptVars, callVars, sumVars>>

\* video.save() of clearQuiz and the answer (aiController.js 280-284)
SaveClear(s) ==
    LET r == reqs[s] IN
    /\ r.pc = "saveClear"
    /\ video' = [video EXCEPT !.quiz = Empty]
    /\ reqs' = [reqs EXCEPT ![s] =
          respond([r EXCEPT !.writes = r.writes + 1], 200, FALSE, Empty)]
    /\ UNCHANGED started
    /\ UNCHANGED <<quizVars, tsVars, notesVars, promptVars, callVars, sumVars>>

CtlNext ==
    \E s \in Slots :
        \/ CtlStart(s)
        \/ SummaryLoad(s)
        \/ QuizLoad(s)
        \/ NotesLoad(s)
        \/ TutorLoad(s)
        \/ ClearLoad(s)
        \/ FetchTranscript(s)
        \/ Summarize(s)
        \/ GenerateQuiz(s)
        \/ GenerateNotes(s)
        \/ AskTutor(s)
        \/ SaveSummary(s)
        \/ SaveQuiz(s)
        \/ SaveNotes(s)
        \/ SaveClear(s)

(***************************************************************************)
(* Properties of the request handlers.                                     *)
(***************************************************************************)
\* the persisted result that a request of this kind is about
persisted(v, kind) ==
    CASE kind = "summary" -> v.summary
      [] kind = "quiz" -> v.quiz
      [] kind = "notes" -> v.aiNotes
      [] OTHER -> Empty

\* a persisted result exists for the key of the request
hasPersisted(v, r) ==
    \/ r.kind = "summary" /\ v.summary.content # 0
    \/ r.kind = "quiz" /\ v.quiz.content # 0 /\ v.quiz.n = r.questionCount
    \/ r.kind = "notes" /\ v.aiNotes.content # 0 /\ v.aiNotes.format = r.format

\* the step that an owner's request takes when a persisted result exists for
\* its key: it answers with that result and touches nothing
CacheHitStep ==
    \A s \in Slots :
        (/\ reqs[s].pc = "load"
         /\ reqs[s].who = "owner"
         /\ hasPersisted(video, reqs[s])
         /\ reqs'[s] # reqs[s])
        => /\ reqs'[s].pc = "done"
           /\ reqs'[s].status = 200
           /\ reqs'[s].cached
           /\ reqs'[s].body = persisted(video, reqs[s].kind)
           /\ video' = video

\* an answer marked as cached carries a result for the key of the request and
\* the request fetched no transcript, called no provider and wrote nothing
CachedAnswers ==
    \A s \in Slots :
        (reqs[s].pc = "done" /\ reqs[s].cached)
        => /\ reqs[s].fetches = 0 /\ reqs[s].calls = 0 /\ reqs[s].writes = 0
           /\ reqs[s].status = 200
           /\ reqs[s].body.content # 0
           /\ reqs[s].kind = "quiz" => reqs[s].body.n = reqs[s].questionCount
           /\ reqs[s].kind = "notes" => reqs[s].body.format = reqs[s].format

\* the step of a request that waits for the transcript
TranscriptStep ==
    \A s \in Slots :
        (reqs[s].pc = "transcript" /\ reqs'[s] # reqs[s])
        => /\ reqs'[s].pc = (IF reqs[s].kind = "notes" THEN "notes" ELSE "summarize")
           /\ reqs'[s].status = 0
           /\ reqs'[s].fetches = reqs[s].fetches + 1
           /\ reqs'[s].transcript \in {getVideoTranscript(o) : o \in TranscriptOutcomes}

\* C12: getVideoTranscript never throws; for every failure of the transcript
\* service (exception, empty or missing result) it returns available = false
\* with an empty text and no segments, and the summary, quiz or notes request
\* that called it goes on to the provider stage instead of failing.
C12_TranscriptNeverThrows ==
    /\ [](\A o \in TranscriptOutcomes :
            /\ ~getVideoTranscript(o).thrown
            /\ o # "segments" => getVideoTranscript(o) = NoTranscript)
    /\ [][TranscriptStep]_vars

\* a notes request has fetched the transcript, got none, and is at the
\* provider stage
C12_Witness ==
    \E s \in Slots :
        /\ reqs[s].kind = "notes" /\ reqs[s].pc = "notes"
        /\ reqs[s].fetches = 1
        /\ reqs[s].transcript = NoTranscript

\* C13: a summary request for a video without transcript, whose provider
\* call returned a text, does not fail whatever the video's duration: it is
\* answered with status 200 and the non-empty summary.
C13_SummaryWithoutTranscript ==
    [][\A s \in Slots :
          (/\ reqs[s].kind = "summary" /\ reqs[s].pc = "saveSummary"
           /\ ~reqs[s].transcript.available
           /\ reqs[s].result.content # 0
           /\ reqs'[s] # reqs[s])
          => /\ reqs'[s].status = 200
             /\ reqs'[s].body.content # 0]_vars

\* C16: a request that names a provider outside the supported set fails
\* fast: it is answered with a 400 error and has fetched no transcript and
\* called no provider.
C16_UnknownProviderFailsFast ==
    \A s \in Slots :
        (/\ reqs[s].pc # "idle"
         /\ reqs[s].kind # "clearQuiz"
         /\ reqs[s].provider \notin {"gemini", "openai", "claude"})
        => /\ reqs[s].pc = "done"
           /\ reqs[s].status = 400
           /\ reqs[s].fetches = 0 /\ reqs[s].calls = 0 /\ reqs[s].writes = 0

\* a summary request that names an unsupported provider has been answered
C16_Witness ==
    \E s \in Slots :
        /\ reqs[s].kind = "summary" /\ reqs[s].provider = "mistral"
        /\ reqs[s].pc = "done" /\ reqs[s].status = 400

\* a request calls the provider only at the call steps, once per step
CallStep ==
    \A s \in Slots :
        reqs'[s].id = reqs[s].id
        => /\ reqs'[s].calls \in {reqs[s].calls, reqs[s].calls + 1}
           /\ reqs'[s].calls # reqs[s].calls
                 => /\ reqs[s].pc \in {"summarize", "quiz", "notes", "tutor"}
                    /\ ~reqs[s].failed
           /\ reqs[s].failed => reqs'[s].failed

QuizSourceStep ==
    \A s \in Slots :
        (reqs[s].kind = "quiz" /\ reqs'[s].id = reqs[s].id /\ reqs'[s] # reqs[s])
        => /\ (reqs[s].pc = "load" /\ reqs[s].who = "owner" /\ video.summary.content # 0)
                 => \/ reqs'[s].pc = "done" /\ reqs'[s].cached
                    \/ /\ reqs'[s].pc = "quiz"
                       /\ reqs'[s].summaryContent = video.summary.content
                       /\ reqs'[s].calls = 0 /\ reqs'[s].fetches = 0
           /\ (reqs[s].pc = "load" /\ reqs'[s].pc = "quiz") => video.summary.content # 0
           /\ (reqs[s].pc # "quiz" /\ reqs'[s].pc = "quiz")
                 => reqs[s].pc \in {"load", "summarize"}
           /\ (reqs[s].pc = "summarize" /\ reqs'[s].pc = "quiz")
                 => /\ reqs'[s].summaryContent = reqs[s].id
                    /\ reqs'[s].calls = 1
                    /\ ~reqs'[s].failed
           /\ reqs[s].pc = "quiz" => reqs'[s].calls = reqs[s].calls + 1

\* C19: the quiz prompt is built from summary text: from the persisted
\* summary when the video has one, and then no summary is generated; else
\* from a summary generated first, and the quiz call is made only after that
\* summary call succeeded.
C19_QuizFromSummary ==
    /\ [](\A s \in Slots :
             (reqs[s].kind = "quiz" /\ reqs[s].pc = "quiz")
             => /\ reqs[s].summaryContent # 0
                /\ ~reqs[s].failed
                /\ \/ reqs[s].calls = 0 /\ reqs[s].fetches = 0
                   \/ /\ reqs[s].calls = 1 /\ reqs[s].fetches = 1
                      /\ reqs[s].summaryContent = reqs[s].id)
    /\ [][QuizSourceStep]_vars

\* a quiz request on a video without summary has made its summary call and
\* its quiz call
C19_Witness ==
    \E s \in Slots :
        /\ reqs[s].kind = "quiz" /\ reqs[s].pc = "saveQuiz"
        /\ reqs[s].calls = 2 /\ reqs[s].fetches = 1
        /\ reqs[s].summaryContent = reqs[s].id

\* C20: summary requests for one video are not coordinated: every request
\* that passed the cache check calls the provider and, when its save is
\* accepted, writes its own result over whatever the video holds by then.
C20_Uncoordinated ==
    /\ [](\A s \in Slots :
             (/\ reqs[s].kind = "summary" /\ reqs[s].pc = "done"
              /\ reqs[s].status = 200 /\ ~reqs[s].cached)
             => /\ reqs[s].fetches = 1 /\ reqs[s].calls = 1 /\ reqs[s].writes = 1
                /\ reqs[s].body.content \in {0, reqs[s].id})
    /\ [][\A s \in Slots :
             (reqs[s].pc = "saveSummary" /\ reqs'[s].status = 200)
             => video'.summary = reqs[s].result]_vars

\* two summary requests for the video were in flight together, both called
\* the provider and both wrote; the video holds the result of one of them
C20_Witness ==
    /\ \A s \in Slots :
          /\ reqs[s].kind = "summary" /\ reqs[s].pc = "done"
          /\ reqs[s].status = 200 /\ ~reqs[s].cached
          /\ reqs[s].calls = 1 /\ reqs[s].writes = 1
    /\ reqs[1].id # reqs[2].id
    /\ video.summary.content \in {reqs[1].id, reqs[2].id}

\* C3: when zero quiz questions survive validation, quiz generation reports a
\* failure: no successful answer carries an empty question list and no empty
\* question list is persisted as a generated quiz.
C3_NoEmptyQuiz ==
    /\ \A s \in Slots :
          (reqs[s].pc = "done" /\ reqs[s].kind = "quiz" /\ reqs[s].status = 200)
          => reqs[s].body.n > 0
    /\ video.quiz.content # 0 => video.quiz.n > 0

\* C4: when a persisted result exists for the key of a request (summary
\* content present; quiz with the requested number of questions; notes in the
\* requested format), the request answers with that result unchanged,
\* fetches no transcript, calls no provider and writes nothing to the video.
C4_CacheHit == [][CacheHitStep]_vars /\ []CachedAnswers

\* a quiz request is answered from the cache with the three questions that a
\* previous request for five persisted
C4_Witness ==
    \E s \in Slots :
        /\ reqs[s].pc = "done" /\ reqs[s].cached
        /\ reqs[s].kind = "quiz" /\ reqs[s].questionCount = 3
        /\ reqs[s].body = video.quiz
        /\ reqs[s].body.content # reqs[s].id

\* C5: a request that forces regeneration for a key that has a persisted
\* result calls the provider and replaces the persisted result instead of
\* answering with the cached one.
C5_ForceRegenerates ==
    \A s \in Slots :
        (reqs[s].pc = "done" /\ reqs[s].force /\ reqs[s].status = 200)
        => /\ ~reqs[s].cached
           /\ reqs[s].calls >= 1
           /\ reqs[s].writes >= 1

\* C25: when generateQuiz finds no summary on the video, the summary it
\* generates as quiz source is saved on the video, so that after the quiz
\* request the video has a persisted summary (and a following summary
\* request is a cache hit).
C25_QuizSavesSummary ==
    \A s \in Slots :
        (/\ reqs[s].kind = "quiz" /\ reqs[s].pc = "done"
         /\ reqs[s].status = 200 /\ ~reqs[s].cached
         /\ reqs[s].fetches = 1 /\ reqs[s].calls = 2)
        => video.summary.content # 0

\* C27: when the provider call or the parsing step fails during a summary,
\* quiz or notes request, the request ends with an error answer and has
\* written nothing to the video.
C27_FailureWritesNothing ==
    \A s \in Slots :
        (/\ reqs[s].pc = "done"
         /\ reqs[s].kind \in {"summary", "quiz", "notes"}
         /\ reqs[s].failed \/ reqs[s].parseFailed)
        => /\ reqs[s].status >= 400
           /\ reqs[s].writes = 0

\* a request of a user who does not own the video's playlist has fetched no
\* transcript, called no provider, written nothing and received nothing
NonOwnerGetsNothing(r) ==
    /\ r.pc \in {"load", "done"}
    /\ r.fetches = 0 /\ r.calls = 0 /\ r.writes = 0
    /\ ~r.cached /\ r.body = Empty

\* the step of a non-owner's request leaves the video as it is
NonOwnerStep ==
    \A s \in Slots :
        (reqs[s].who = "stranger" /\ reqs[s].pc = "load" /\ reqs'[s] # reqs[s])
        => video' = video /\ reqs'[s].pc = "done"

\* C28 as stated: every request of a non-owner (summary, quiz, notes, tutor,
\* clear quiz) ends with 403.
C28_Original ==
    \A s \in Slots :
        (reqs[s].who = "stranger" /\ reqs[s].pc = "done")
        => reqs[s].status = 403 /\ NonOwnerGetsNothing(reqs[s])

\* C28: a request of a non-owner to any of the five endpoints never receives
\* persisted content, never triggers a transcript fetch or a provider call
\* and never modifies the video; it ends with 403 before the cache check,
\* or with 400 when its body fails the route's validation.
C28_NonOwnerDenied ==
    /\ [](\A s \in Slots :
             (reqs[s].who = "stranger" /\ reqs[s].pc # "idle")
             => /\ NonOwnerGetsNothing(reqs[s])
                /\ reqs[s].pc = "done"
                      => reqs[s].status =
                           (IF /\ reqs[s].kind # "clearQuiz"
                               /\ ~providerValidation(reqs[s].provider)
                            THEN 400 ELSE 403))
    /\ [][NonOwnerStep]_vars

\* a non-owner's summary request was answered 403 although the video has a
\* persisted summary
C28_Witness ==
    \E s \in Slots :
        /\ reqs[s].who = "stranger" /\ reqs[s].kind = "summary"
        /\ reqs[s].pc = "done" /\ reqs[s].status = 403
        /\ video.summary.content # 0

\* C30: after a quiz request for n questions has succeeded and persisted its
\* quiz, the next quiz request for the same n is answered from the persisted
\* quiz without a provider call, whatever number of questions the parser
\* kept.
C30_RepeatIsCached ==
    [][\A s, t \in Slots :
          (/\ s # t
           /\ reqs[t].kind = "quiz" /\ reqs[t].pc = "done"
           /\ reqs[t].status = 200 /\ ~reqs[t].cached
           /\ video.quiz.content = reqs[t].id
           /\ reqs[s].kind = "quiz" /\ reqs[s].who = "owner"
           /\ reqs[s].pc = "load"
           /\ reqs[s].id = reqs[t].id + 1
           /\ reqs[s].questionCount = reqs[t].questionCount
           /\ reqs'[s] # reqs[s])
          => /\ reqs'[s].pc = "done" /\ reqs'[s].cached
             /\ reqs'[s].calls = 0
             /\ reqs'[s].body = video.quiz]_vars

(***************************************************************************)
(* The transcript on its way into a prompt.  A transcript is a list of     *)
(* sentences, each followed by one full stop (the last one only when ends  *)
(* is TRUE); a sentence is [n, lead]: its length and the number of blanks  *)
(* (0 or 1) it starts with.  getVideoTranscript has normalised the white   *)
(* space, so a sentence has no other blank at its ends.                    *)
(***************************************************************************)
MaxSentences == 10

SentenceLengths == {80, 4998, 19998, 39998, 60000}

makeTranscript(count, n, lastN, ends) ==
    [sentences |-> [i \in 1..count |-> [n |-> IF i = count THEN lastN ELSE n,
                                        lead |-> IF i = 1 THEN 0 ELSE 1]],
     ends |-> ends]

RECURSIVE sumLengths(_)
sumLengths(sentences) ==
    IF Len(sentences) = 0 THEN 0 ELSE sentences[1].n + sumLengths(Tail(sentences))

\* transcript.length
transcriptLength(transcript) ==
    sumLengths(transcript.sentences) + Len(transcript.sentences)
        - (IF transcript.ends THEN 0 ELSE 1)

\* maxChunkSize (aiHelper.js 134)
maxChunkSize == 40000

EmptyChunk == [len |-> 0, lead |-> 0]

\* currentChunk.trim().length: the chunk ends with the blank of '. '
trimmedLength(chunk) == chunk.len - 1 - chunk.lead

\* the loop of chunkTranscript (aiHelper.js 146-161) from sentence i on; the
\* result is the list of the lengths of the chunks
RECURSIVE chunkLoop(_, _, _, _)
chunkLoop(sentences, i, currentChunk, chunks) ==
    IF i > Len(sentences)
    THEN IF currentChunk.len > 0 THEN Append(chunks, trimmedLength(currentChunk)) ELSE chunks
    ELSE LET sentence == [len |-> sentences[i].n + 2, lead |-> sentences[i].lead]
         IN IF currentChunk.len + sentence.len > maxChunkSize
            THEN chunkLoop(sentences, i + 1, sentence,
                           IF currentChunk.len > 0
                           THEN Append(chunks, trimmedLength(currentChunk))
                           ELSE chunks)
            ELSE chunkLoop(sentences, i + 1,
                           [len |-> currentChunk.len + sentence.len,
                            lead |-> IF currentChunk.len = 0 THEN sentence.lead
                                     ELSE currentChunk.lead],
                           chunks)

\* the characters of the template of aiHelper.js 165-173 outside its four
\* placeholders, the '...' after PART 1 included
TemplateLength == 274

\* String(chunks.length).length
decimalLength(n) == IF n < 10 THEN 1 ELSE IF n < 100 THEN 2 ELSE 3

\* chunks[k].substring(0, 20000) + '...', or '' (aiHelper.js 169, 171)
partLength(chunks, k) == IF k <= Len(chunks) THEN Min(chunks[k], 20000) + 3 ELSE 0

\* a text as the prompt builders see it
asText(length, chunks, reduced) == [length |-> length, chunks |-> chunks, reduced |-> reduced]

\* chunkTranscript (aiHelper.js 133-177)
chunkTranscript(transcript) ==
    IF transcriptLength(transcript) <= maxChunkSize
    THEN asText(transcriptLength(transcript), 1, FALSE)
    ELSE LET chunks == chunkLoop(transcript.sentences, 1, EmptyChunk, <<>>)
         IN IF Len(chunks) > 1
            THEN asText(TemplateLength + decimalLength(Len(chunks))
                          + Min(chunks[1], 20000) + partLength(chunks, 2)
                          + partLength(chunks, 3),
                        Len(chunks), TRUE)
            ELSE asText(transcriptLength(transcript), Len(chunks), FALSE)

\* the threshold of generateNotes (aiHelper.js 99)
LongTranscript == 50000

\* hasTranscript ? `Transcript: "${transcript}"` : '' (aiHelper.js 254, 263
\* and 338): the text embedded in the prompt
embed(text) == IF text.length > 50 THEN text ELSE asText(0, 0, text.reduced)

PromptInit ==
    /\ ppc = "start"
    /\ pfor \in {"summary", "notes"}
    /\ \E count \in 1..MaxSentences, n \in SentenceLengths, lastN \in SentenceLengths,
          ends \in BOOLEAN :
          ptranscript = makeTranscript(count, n, lastN, ends)
    /\ pembedded = asText(0, 0, FALSE)

\* generateSummary up to the prompt (aiHelper.js 18-21)
PromptSummary ==
    /\ ppc = "start" /\ pfor = "summary"
    /\ pembedded' = embed(asText(transcriptLength(ptranscript), 0, FALSE))
    /\ ppc' = "done"
    /\ UNCHANGED <<pfor, ptranscript>>
    /\ UNCHANGED <<quizVars, tsVars, notesVars, ctlVars, callVars, sumVars>>

\* generateNotes up to the prompt (aiHelper.js 95-104)
PromptNotes ==
    /\ ppc = "start" /\ pfor = "notes"
    /\ pembedded' = embed(IF transcriptLength(ptranscript) > LongTranscript
                          THEN chunkTranscript(ptranscript)
                          ELSE asText(transcriptLength(ptranscript), 0, FALSE))
    /\ ppc' = "done"
    /\ UNCHANGED <<pfor, ptranscript>>
    /\ UNCHANGED <<quizVars, tsVars, notesVars, ctlVars, callVars, sumVars>>

PromptNext ==
    \/ PromptSummary
    \/ PromptNotes

\* C14: for every transcript longer than 50,000 characters given to
\* generateNotes, the transcript text embedded in the prompt is shorter than
\* 50,000 characters.
C14_NotesTranscriptReduced ==
    (ppc = "done" /\ pfor = "notes" /\ transcriptLength(ptranscript) > LongTranscript)
    => pembedded.length < LongTranscript

\* C15: a transcript longer than 50,000 characters is reduced before it is
\* embedded in the summary prompt.
C15_SummaryTranscriptReduced ==
    (ppc = "done" /\ pfor = "summary" /\ transcriptLength(ptranscript) > LongTranscript)
    => /\ pembedded.reduced
       /\ pembedded.length < transcriptLength(ptranscript)

(***************************************************************************)
(* One provider call and the way of its error to the caller.  A message    *)
(* is a tuple of its parts.                                                *)
(***************************************************************************)
\* what can happen to a call: the provider answers with a text; the key of
\* the provider is not configured; the HTTP request gets no answer (network,
\* timeout); the answer has a non-2xx status; the answer has no candidate
Causes == {"text", "noKey", "network", "status429", "status500", "envelope"}

apiName(provider) ==
    CASE provider = "gemini" -> "Gemini"
      [] provider = "openai" -> "OpenAI"
      [] OTHER -> "Claude"

NoError == [thrown |-> FALSE, message |-> <<>>, response |-> 0]

\* what the try block of callGeminiAPI / callOpenAIAPI throws (aiHelper.js
\* 505-538, 556-584): response is error.response.status, 0 when the error
\* has no response
tryBlock(provider, cause) ==
    CASE cause = "text" -> NoError
      [] cause = "noKey" ->
           [thrown |-> TRUE, message |-> <<apiName(provider), " API key not configured">>,
            response |-> 0]
      [] cause = "network" ->
           [thrown |-> TRUE, message |-> <<"axios: no response">>, response |-> 0]
      [] cause = "status429" ->
           [thrown |-> TRUE, message |-> <<"axios: status 429">>, response |-> 429]
      [] cause = "status500" ->
           [thrown |-> TRUE, message |-> <<"axios: status 500">>, response |-> 500]
      [] cause = "envelope" ->
           [thrown |-> TRUE, message |-> <<"No response from ", apiName(provider), " API">>,
            response |-> 0]

\* the catch block of callGeminiAPI / callOpenAIAPI (aiHelper.js 539-545,
\* 585-591)
catchBlock(provider, error) ==
    IF error.response # 0
    THEN [error EXCEPT !.message = <<apiName(provider), " API error: ",
                                     IF error.response = 429 THEN "429" ELSE "500">>]
    ELSE [error EXCEPT !.message = <<"Failed to connect to ", apiName(provider), " API">>]

\* callGeminiAPI, callOpenAIAPI, callClaudeAPI (aiHelper.js 503-610)
callAPI(provider, cause) ==
    IF provider = "claude"
    THEN [thrown |-> TRUE, message |-> <<"Claude API not available">>, response |-> 0]
    ELSE IF tryBlock(provider, cause).thrown
         THEN catchBlock(provider, tryBlock(provider, cause))
    ELSE NoError

\* the catch of generateSummary / generateQuiz / generateNotes (aiHelper.js
\* 47-50, 80-83, 122-125)
helperCatch(type, error) ==
    [error EXCEPT !.message = <<"Failed to generate ", type, ": ">> \o error.message]

\* the catch of the handler (aiController.js 61-67, 148-154, 211-217)
handlerCatch(type, error) ==
    [status |-> 500, error |-> <<"Failed to generate ", type>>, message |-> error.message]

NoResponse == [status |-> 0, error |-> <<>>, message |-> <<>>]

\* what the caller receives when the call of this provider fails by this cause
failureResponse(provider, type, cause) ==
    handlerCatch(type, helperCatch(type, callAPI(provider, cause)))

CallInit ==
    /\ apc = "start"
    /\ aprovider \in {"gemini", "openai", "claude"}
    /\ atype \in {"summary", "quiz", "notes"}
    /\ acause \in Causes
    /\ aerror = NoError
    /\ aresponse = NoResponse

\* the switch of the generator and the call (aiHelper.js 24-36, 503-610)
CallProvider ==
    /\ apc = "start"
    /\ aerror' = callAPI(aprovider, acause)
    /\ apc' = IF callAPI(aprovider, acause).thrown THEN "thrown" ELSE "returned"
    /\ UNCHANGED <<aprovider, atype, acause, aresponse>>
    /\ UNCHANGED <<quizVars, tsVars, notesVars, ctlVars, promptVars, sumVars>>

\* the generator's catch throws again
HelperCatch ==
    /\ apc = "thrown"
    /\ aerror' = helperCatch(atype, aerror)
    /\ apc' = "rethrown"
    /\ UNCHANGED <<aprovider, atype, acause, aresponse>>
    /\ UNCHANGED <<quizVars, tsVars, notesVars, ctlVars, promptVars, sumVars>>

\* the handler's catch answers
HandlerCatch ==
    /\ apc = "rethrown"
    /\ aresponse' = handlerCatch(atype, aerror)
    /\ apc' = "responded"
    /\ UNCHANGED <<aprovider, atype, acause, aerror>>
    /\ UNCHANGED <<quizVars, tsVars, notesVars, ctlVars, promptVars, sumVars>>

\* the call returned a text: the handler goes on to its 200 answer
HandlerAnswers ==
    /\ apc = "returned"
    /\ aresponse' = [status |-> 200, error |-> <<>>, message |-> <<>>]
    /\ apc' = "responded"
    /\ UNCHANGED <<aprovider, atype, acause, aerror>>
    /\ UNCHANGED <<quizVars, tsVars, notesVars, ctlVars, promptVars, sumVars>>

CallNext ==
    \/ CallProvider
    \/ HelperCatch
    \/ HandlerCatch
    \/ HandlerAnswers

\* C17: a missing credential reaches the caller as an error that differs from
\* the one of a network failure and from the one of an empty envelope, and
\* these two differ as well: the three never give the same error value.
C17_DistinctFailures ==
    (/\ apc = "responded"
     /\ aprovider \in {"gemini", "openai"}
     /\ acause \in {"noKey", "network", "envelope"})
    => \A other \in {"noKey", "network", "envelope"} \ {acause} :
          aresponse # failureResponse(aprovider, atype, other)

(***************************************************************************)
(* parseSummaryContent.  A response is a sequence of tokens: "SUMMARY:"    *)
(* (the label), "Summary:" (the label in another case), "text" (some other *)
(* text without blanks at its ends) and " " (white space).                 *)
(***************************************************************************)
MaxTokens == 4

Tokens == {"SUMMARY:", "Summary:", "text", " "}

\* String.prototype.trim() on a sequence of tokens
RECURSIVE trimTokens(_)
trimTokens(str) ==
    IF Len(str) = 0 THEN str
    ELSE IF str[1] = " " THEN trimTokens(Tail(str))
    ELSE IF str[Len(str)] = " " THEN trimTokens(SubSeq(str, 1, Len(str) - 1))
    ELSE str

\* String.prototype.replace(label, ''): the first occurrence is removed,
\* wherever it is
RECURSIVE replaceFirst(_, _)
replaceFirst(str, label) ==
    IF Len(str) = 0 THEN str
    ELSE IF str[1] = label THEN Tail(str)
    ELSE <<str[1]>> \o replaceFirst(Tail(str), label)

\* parseSummaryContent (aiHelper.js 617-625)
parseSummaryContent(response) == trimTokens(replaceFirst(response, "SUMMARY:"))

SummaryInit ==
    /\ spc = "start"
    /\ \E n \in 0..MaxTokens : sresponse \in [1..n -> Tokens]
    /\ scontent = <<>>

\* const summaryContent = this.parseSummaryContent(response) (aiHelper.js 38)
SummaryParse ==
    /\ spc = "start"
    /\ scontent' = parseSummaryContent(sresponse)
    /\ spc' = "done"
    /\ UNCHANGED sresponse
    /\ UNCHANGED <<quizVars, tsVars, notesVars, ctlVars, promptVars, callVars>>

SummaryNext == SummaryParse

\* the response starts with the label, after white space at most
LeadingLabel(str) == Len(trimTokens(str)) > 0 /\ trimTokens(str)[1] = "SUMMARY:"

\* C21: parseSummaryContent removes a SUMMARY: label only when it is the
\* leading text of the response; a response without a leading label is
\* returned trimmed and otherwise unchanged, a later SUMMARY: included.
C21_LeadingLabelOnly ==
    spc = "done"
    => scontent = IF LeadingLabel(sresponse)
                  THEN trimTokens(Tail(trimTokens(sresponse)))
                  ELSE trimTokens(sresponse)

(***************************************************************************)
(* Specifications.  Each one runs one part of the program; the variables   *)
(* of the other parts rest.                                                *)
(***************************************************************************)
QuizIdle ==
    /\ qpc = "idle"
    /\ qresp = [isString |-> TRUE, nBlocks |-> 0]
    /\ blockIndex = 0
    /\ nLines = 0
    /\ scan = ScanInit
    /\ questions = <<>>
    /\ qcur = HistInit
    /\ qhist = <<>>

TsIdle ==
    /\ tpc = "idle"
    /\ segments = <<>>
    /\ keyTopics = {}
    /\ videoDuration = 0
    /\ timestamps = <<>>
    /\ tmode = "none"
    /\ savedTs = <<>>

NotesIdle ==
    /\ npc = "idle"
    /\ nresponse = [isString |-> TRUE, text |-> <<>>]
    /\ ncalls = <<>>
    /\ nresult = [content |-> [len |-> 0, cut |-> FALSE], sections |-> <<>>]

SummaryIdle ==
    /\ spc = "start"
    /\ sresponse = <<>>
    /\ scontent = <<>>

CallIdle ==
    /\ apc = "start"
    /\ aprovider = "gemini"
    /\ atype = "summary"
    /\ acause = "text"
    /\ aerror = NoError
    /\ aresponse = NoResponse

PromptIdle ==
    /\ ppc = "start"
    /\ pfor = "notes"
    /\ ptranscript = makeTranscript(0, 80, 80, TRUE)
    /\ pembedded = asText(0, 0, FALSE)

CtlIdle ==
    /\ video = [duration |-> 0, summary |-> Empty, quiz |-> Empty, aiNotes |-> Empty]
    /\ reqs = [s \in Slots |-> IdleReq]
    /\ started = 0

InitQuiz == QuizInit /\ TsIdle /\ NotesIdle /\ CtlIdle /\ PromptIdle /\ CallIdle
    /\ SummaryIdle

InitTs == TsInit /\ QuizIdle /\ NotesIdle /\ CtlIdle /\ PromptIdle /\ CallIdle
    /\ SummaryIdle

InitNotes == NotesInit /\ QuizIdle /\ TsIdle /\ CtlIdle /\ PromptIdle /\ CallIdle
    /\ SummaryIdle

InitCtl == CtlInit /\ QuizIdle /\ TsIdle /\ NotesIdle /\ PromptIdle /\ CallIdle
    /\ SummaryIdle

InitCall ==
    CallInit /\ QuizIdle /\ TsIdle /\ NotesIdle /\ CtlIdle /\ PromptIdle /\ SummaryIdle

InitSummary ==
    SummaryInit /\ QuizIdle /\ TsIdle /\ NotesIdle /\ CtlIdle /\ PromptIdle /\ CallIdle

InitPrompt == PromptInit /\ QuizIdle /\ TsIdle /\ NotesIdle /\ CtlIdle /\ CallIdle
    /\ SummaryIdle

Init == InitCtl

Next == CtlNext

Spec == Init /\ [][Next]_vars

SpecQuiz == InitQuiz /\ [][QuizNext]_vars

SpecTs == InitTs /\ [][TsNext]_vars

SpecNotes == InitNotes /\ [][NotesNext]_vars

SpecCtl == InitCtl /\ [][CtlNext]_vars

SpecPrompt == InitPrompt /\ [][PromptNext]_vars

SpecCall == InitCall /\ [][CallNext]_vars

SpecSummary == InitSummary /\ [][SummaryNext]_vars

====
